---------------------------- MODULE Spec2Model ----------------------------
(***************************************************************************)
(* Model of src/recorder.py: the dashcam daemon's supervisory loop         *)
(* (main), the volume selector (select_usb_path, get_free_space_gb) and    *)
(* the capture session runner (record_video).                              *)
(*                                                                         *)
(* Quantities.  os.statvfs answers in blocks (f_bavail) of f_frsize bytes. *)
(* Sizes are carried here in KiB so that they fit TLC's 32-bit integers:    *)
(* f_frsize is a block size in KiB and 1 Go = 1024**3 bytes = KiBPerGo     *)
(* KiB.  The float free_gb = free_bytes / 1024**3 of the program is        *)
(* carried as the exact fraction  n / KiBPerGo, written n: the division    *)
(* by a power of two is exact in binary floating point for every size      *)
(* below 2**53 bytes, so comparing two such floats, or one with            *)
(* MIN_FREE_SPACE_GB, is comparing the numerators.                         *)
(***************************************************************************)
EXTENDS Integers, Sequences, FiniteSets, TLC

VARIABLES
    USB_PATHS,       \* configuration: the ordered candidate mounts (line 19)
    VIDEO_DURATION,  \* configuration: segment length in seconds (line 22)
    LAST_USED_USB,   \* the module global of line 47
    pc,              \* where main() is
    usb_path,        \* main's local: what the last select_usb_path() returned
    seen,            \* what the last select_usb_path() call observed, per path
    last_returned,   \* the mount returned by the last call that returned one
    prev_returned,   \* last_returned as it was when that call was made
    encoder,         \* the ffmpeg process run by subprocess.run, if any
    active,          \* how many encoder processes are running
    returned,        \* what the last completed record_video() returned
    exit_status,     \* the exit status of the last encoder process
    slept,           \* the length in seconds of the last time.sleep()
    boot,            \* the wall clock's date and time when the daemon started
    now,             \* the wall clock, in ticks since boot
    attempts         \* the record_video() calls so far: mount, start, path

vars == <<USB_PATHS, VIDEO_DURATION, LAST_USED_USB, pc, usb_path, seen,
          last_returned, prev_returned, encoder, active, returned,
          exit_status, slept, boot, now, attempts>>

-----------------------------------------------------------------------------
(* Bounds of the model *)

\* statvfs answers within FineBlocks blocks of the threshold are enumerated
FineBlocks == 1

\* the encoder's exit statuses 0..MaxExitStatus are enumerated
MaxExitStatus == 2

\* the wall clock is read to a fraction of a second: ticks per second
TicksPerSecond == 2

\* the wall clock is followed for MaxClock ticks after boot
MaxClock == 10

\* a statement takes up to MaxJitter ticks more than the least it can take
MaxJitter == 1

\* the segment length, in seconds, of the configuration the clock is
\* followed under
ClockDuration == 2

-----------------------------------------------------------------------------
(* Configuration, lines 15-47 *)

ShippedPaths == <<"/mnt/usb1", "/mnt/usb2">>

ShippedDuration == 300

MIN_FREE_SPACE_GB == 2

INTERVAL == 1

RetryPause == 5

None == "None"

KiBPerGo == 1024 * 1024

\* every path a configuration of the model may list
AllPaths == {"/mnt/usb1", "/mnt/usb2"}

-----------------------------------------------------------------------------
(* The environment's answers to one select_usb_path() call *)

\* the file systems answer in blocks of 4096 bytes
BlockKiB == 4096 \div 1024

BlocksPerGo == KiBPerGo \div BlockKiB

NoStat == [status |-> "none", f_bavail |-> 0, f_frsize |-> 0]

StatError == [status |-> "error", f_bavail |-> 0, f_frsize |-> 0]

FreeBlockCounts ==
    {0, BlocksPerGo, 10 * BlocksPerGo, 50 * BlocksPerGo}
    \cup {MIN_FREE_SPACE_GB * BlocksPerGo + d : d \in (-FineBlocks)..FineBlocks}

StatAnswers ==
    {StatError}
    \cup {[status |-> "ok", f_bavail |-> b, f_frsize |-> BlockKiB] :
            b \in FreeBlockCounts}

NotInspected ==
    [inspected |-> FALSE, exists |-> FALSE, ismount |-> FALSE, stat |-> NoStat]

\* os.path.exists(p) and os.path.ismount(p): ismount is asked only when the
\* path exists, statvfs only when both hold (lines 101, 104)
Answers ==
    {[inspected |-> TRUE, exists |-> FALSE, ismount |-> FALSE, stat |-> NoStat],
     [inspected |-> TRUE, exists |-> TRUE, ismount |-> FALSE, stat |-> NoStat]}
    \cup {[inspected |-> TRUE, exists |-> TRUE, ismount |-> TRUE, stat |-> s] :
            s \in StatAnswers}

Range(s) == {s[i] : i \in DOMAIN s}

\* the observations a call can make: one answer per configured path
Observations(paths) ==
    {o \in [AllPaths -> Answers \cup {NotInspected}] :
        \A p \in AllPaths : o[p].inspected <=> p \in Range(paths)}

-----------------------------------------------------------------------------
(* get_free_space_gb, lines 57-76 *)

get_free_space_gb(st) ==
    IF st.status = "ok" THEN st.f_bavail * st.f_frsize ELSE 0

(* select_usb_path, lines 89-148 *)

\* a presence test that forgets os.path.ismount
IsPresentExistsOnly(a) == a.exists

\* line 101
IsPresent(a) == a.exists /\ a.ismount

RECURSIVE BuildAvailable(_, _)
\* the loop of lines 98-111: (path, free space) of every present mount, in
\* the order of USB_PATHS
BuildAvailable(paths, obs) ==
    IF paths = <<>> THEN <<>>
    ELSE LET p == Head(paths)
             rest == BuildAvailable(Tail(paths), obs)
         IN  IF IsPresent(obs[p])
             THEN <<<<p, get_free_space_gb(obs[p].stat)>>>> \o rest
             ELSE rest

\* the threshold test written with > for >=
EnoughSpaceStrict(free_space) == free_space > MIN_FREE_SPACE_GB * KiBPerGo

\* line 125: free_space >= MIN_FREE_SPACE_GB
EnoughSpace(free_space) == free_space >= MIN_FREE_SPACE_GB * KiBPerGo

\* a sticky rule that returns the last used mount as soon as some present
\* mount has enough space, without looking for it among the present ones
StickyChoiceAnyRoom(available_usbs, last) ==
    IF last # None
       /\ \E i \in DOMAIN available_usbs : EnoughSpace(available_usbs[i][2])
    THEN last
    ELSE None

\* no sticky rule at all: the mount with the most free space every time
StickyChoiceNever(available_usbs, last) == None

\* a sticky rule without the threshold test of line 125
StickyChoiceNoThreshold(available_usbs, last) ==
    IF last # None
       /\ \E i \in DOMAIN available_usbs : available_usbs[i][1] = last
    THEN last
    ELSE None

\* the loop of lines 123-128: the first entry that is the last used mount
\* and has enough space, or None
StickyChoice(available_usbs, last) ==
    LET hits == {i \in DOMAIN available_usbs :
                    /\ available_usbs[i][1] = last
                    /\ EnoughSpace(available_usbs[i][2])}
    IN  IF last # None /\ hits # {}
        THEN available_usbs[CHOOSE i \in hits : \A j \in hits : i <= j][1]
        ELSE None

RECURSIVE InsertDescUnstable(_, _)
\* e placed before the entries of equal free space: an ascending sort that
\* is then reversed orders equal entries this way
InsertDescUnstable(e, s) ==
    IF s = <<>> THEN <<e>>
    ELSE IF Head(s)[2] > e[2]
         THEN <<Head(s)>> \o InsertDescUnstable(e, Tail(s))
    ELSE <<e>> \o s

RECURSIVE InsertDesc(_, _)
\* e placed after every entry whose free space is >= its own
InsertDesc(e, s) ==
    IF s = <<>> THEN <<e>>
    ELSE IF Head(s)[2] >= e[2] THEN <<Head(s)>> \o InsertDesc(e, Tail(s))
    ELSE <<e>> \o s

RECURSIVE SortDesc(_)
\* list.sort(key=lambda x: x[1], reverse=True), line 134: stable, so entries
\* of equal free space keep their order
SortDesc(s) ==
    IF s = <<>> THEN <<>>
    ELSE InsertDesc(s[Len(s)], SortDesc(SubSeq(s, 1, Len(s) - 1)))

\* the sort without reverse=True: the entry with the least free space
BestChoiceLeast(available_usbs) ==
    SortDesc(available_usbs)[Len(available_usbs)][1]

\* lines 134-139
BestChoice(available_usbs) == SortDesc(available_usbs)[1][1]

\* a selection that refuses when no present mount has enough space
SelectResultRefuse(paths, obs, last) ==
    LET available_usbs == BuildAvailable(paths, obs)
    IN  IF \A i \in DOMAIN available_usbs :
              ~EnoughSpace(available_usbs[i][2])
        THEN None
        ELSE IF StickyChoice(available_usbs, last) # None
             THEN StickyChoice(available_usbs, last)
        ELSE BestChoice(available_usbs)

\* the value select_usb_path returns for an observation
SelectResult(paths, obs, last) ==
    LET available_usbs == BuildAvailable(paths, obs)
    IN  IF available_usbs = <<>> THEN None
        ELSE IF StickyChoice(available_usbs, last) # None
             THEN StickyChoice(available_usbs, last)
        ELSE BestChoice(available_usbs)

\* line 142 run only while LAST_USED_USB is still None
SelectStickyFirstOnly(paths, obs, last) ==
    LET available_usbs == BuildAvailable(paths, obs)
    IN  IF available_usbs = <<>> \/ last # None THEN last
        ELSE BestChoice(available_usbs)

\* LAST_USED_USB reset when no mount is detected
SelectStickyClearsOnNone(paths, obs, last) ==
    LET available_usbs == BuildAvailable(paths, obs)
    IN  IF available_usbs = <<>> THEN None
        ELSE IF StickyChoice(available_usbs, last) # None THEN last
        ELSE BestChoice(available_usbs)

\* the value of LAST_USED_USB when select_usb_path returns: assigned at
\* line 142 only, on the path through the sort
SelectSticky(paths, obs, last) ==
    LET available_usbs == BuildAvailable(paths, obs)
    IN  IF available_usbs = <<>> THEN last
        ELSE IF StickyChoice(available_usbs, last) # None THEN last
        ELSE BestChoice(available_usbs)

-----------------------------------------------------------------------------
(* main, lines 240-271, and record_video, lines 158-227 *)

InitState ==
    /\ LAST_USED_USB = None
    /\ pc = "start"
    /\ usb_path = None
    /\ seen = [p \in AllPaths |-> NotInspected]
    /\ last_returned = None
    /\ prev_returned = None
    /\ encoder = [running |-> FALSE, dest |-> None, t |-> 0]
    /\ active = 0
    /\ returned = "none"
    /\ exit_status = 0
    /\ slept = 0
    /\ now = 0
    /\ attempts = <<>>

\* the example of lines 163 and 167: 3 October 2025, 14:35:20
ExampleInstant == [Y |-> 2025, m |-> 10, d |-> 3, H |-> 14, M |-> 35, S |-> 20]

Init ==
    /\ USB_PATHS = ShippedPaths
    /\ VIDEO_DURATION = ShippedDuration
    /\ boot = ExampleInstant
    /\ InitState

\* main is entered at line 281 and reaches the loop of line 245
MainStart ==
    /\ pc = "start"
    /\ pc' = "select"
    /\ UNCHANGED <<USB_PATHS, VIDEO_DURATION, LAST_USED_USB, usb_path, seen,
                   last_returned, prev_returned, encoder, active, returned,
                   exit_status, slept>>

\* a loop that forgets the test of line 251
AfterSelectAlwaysRecord(r) == "record"

\* lines 251-261: main records only when the selection returned a mount
AfterSelect(r) == IF r = None THEN "retry_sleep" ELSE "record"

\* lines 248-261: one call of select_usb_path and main's test of its result
SelectUsbPath ==
    /\ pc = "select"
    /\ \E obs \in Observations(USB_PATHS) :
         LET r == SelectResult(USB_PATHS, obs, LAST_USED_USB)
         IN  /\ seen' = obs
             /\ usb_path' = r
             /\ LAST_USED_USB' = SelectSticky(USB_PATHS, obs, LAST_USED_USB)
             /\ last_returned' = IF r # None THEN r ELSE last_returned
             /\ prev_returned' = IF r # None THEN last_returned
                                 ELSE prev_returned
             /\ pc' = AfterSelect(r)
    /\ UNCHANGED <<USB_PATHS, VIDEO_DURATION, encoder, active, returned,
                   exit_status, slept>>

\* line 258: time.sleep(5), then continue
RetrySleep ==
    /\ pc = "retry_sleep"
    /\ slept' = RetryPause
    /\ pc' = "select"
    /\ UNCHANGED <<USB_PATHS, VIDEO_DURATION, LAST_USED_USB, usb_path, seen,
                   last_returned, prev_returned, encoder, active, returned,
                   exit_status>>

\* subprocess.Popen: the process is started and not waited for
AfterLaunchNoWait == "pause"

\* line 216: subprocess.run returns only when the process has exited
AfterLaunch == "encoding"

\* lines 164-216: the command is built and subprocess.run starts ffmpeg
RecordLaunch ==
    /\ pc = "record"
    /\ encoder' = [running |-> TRUE, dest |-> usb_path, t |-> VIDEO_DURATION]
    /\ active' = active + 1
    /\ pc' = AfterLaunch
    /\ UNCHANGED <<USB_PATHS, VIDEO_DURATION, LAST_USED_USB, usb_path, seen,
                   last_returned, prev_returned, returned, exit_status, slept>>

\* line 216 when the executable cannot be started: subprocess.run raises an
\* OSError (FileNotFoundError), which the except clause of line 223 does not
\* name; it leaves record_video and main
RecordLaunchError ==
    /\ pc = "record"
    /\ pc' = "crashed"
    /\ UNCHANGED <<USB_PATHS, VIDEO_DURATION, LAST_USED_USB, usb_path, seen,
                   last_returned, prev_returned, encoder, active, returned,
                   exit_status, slept>>

ExitStatuses == {-9} \cup (0..MaxExitStatus)

\* subprocess.run without check=True: no status raises
RecordResultUnchecked(status) == "true"

\* what record_video returns for an exit status: check=True raises
\* CalledProcessError for a non-zero status, caught at line 223
RecordResult(status) == IF status = 0 THEN "true" ELSE "false"

\* lines 216-227: the encoder exits and record_video returns to line 265
EncoderExit ==
    /\ pc = "encoding"
    /\ \E status \in ExitStatuses :
         /\ exit_status' = status
         /\ returned' = RecordResult(status)
    /\ encoder' = [encoder EXCEPT !.running = FALSE]
    /\ active' = active - 1
    /\ pc' = "pause"
    /\ UNCHANGED <<USB_PATHS, VIDEO_DURATION, LAST_USED_USB, usb_path, seen,
                   last_returned, prev_returned, slept>>

\* line 271: time.sleep(INTERVAL), then the loop repeats
Pause ==
    /\ pc = "pause"
    /\ slept' = INTERVAL
    /\ pc' = "select"
    /\ UNCHANGED <<USB_PATHS, VIDEO_DURATION, LAST_USED_USB, usb_path, seen,
                   last_returned, prev_returned, encoder, active, returned,
                   exit_status>>

\* Spec follows main without the wall clock: the clock and the output
\* paths are followed by SpecClock below
Timeless == UNCHANGED <<boot, now, attempts>>

Next ==
    \/ MainStart /\ Timeless
    \/ SelectUsbPath /\ Timeless
    \/ RetrySleep /\ Timeless
    \/ RecordLaunch /\ Timeless
    \/ RecordLaunchError /\ Timeless
    \/ EncoderExit /\ Timeless
    \/ Pause /\ Timeless

Spec == Init /\ [][Next]_vars

\* The configuration globals of lines 15-42 are edited by whoever installs
\* the daemon; nothing in the program reads them before main's loop.  This
\* specification starts the program under each of a few configurations,
\* the shipped one among them.
ConfigPaths == {<<>>, <<"/mnt/usb1">>, ShippedPaths}

ConfigDurations == {-1, 0, ShippedDuration}

InitConfig ==
    /\ USB_PATHS \in ConfigPaths
    /\ VIDEO_DURATION \in ConfigDurations
    /\ boot = ExampleInstant
    /\ InitState

SpecConfig == InitConfig /\ [][Next]_vars

\* main is one thread that runs whenever it can: each statement it has
\* reached is eventually executed, every time.sleep returns, and every
\* encoder that was started exits.  At line 216 the process either starts
\* or cannot be started.
Fairness ==
    /\ WF_vars(MainStart /\ Timeless)
    /\ WF_vars(SelectUsbPath /\ Timeless)
    /\ WF_vars(RetrySleep /\ Timeless)
    /\ WF_vars((RecordLaunch \/ RecordLaunchError) /\ Timeless)
    /\ WF_vars(EncoderExit /\ Timeless)
    /\ WF_vars(Pause /\ Timeless)

SpecLive == Spec /\ Fairness

-----------------------------------------------------------------------------
(* The wall clock and record_video's output path, lines 164-173 *)

IsLeap(y) == (y % 4 = 0 /\ y % 100 # 0) \/ y % 400 = 0

DaysInMonth(y, m) ==
    IF m = 2 THEN (IF IsLeap(y) THEN 29 ELSE 28)
    ELSE IF m \in {4, 6, 9, 11} THEN 30
    ELSE 31

\* the date and time one second after dt
NextSecond(dt) ==
    IF dt.S < 59 THEN [dt EXCEPT !.S = dt.S + 1]
    ELSE IF dt.M < 59 THEN [dt EXCEPT !.S = 0, !.M = dt.M + 1]
    ELSE IF dt.H < 23 THEN [dt EXCEPT !.S = 0, !.M = 0, !.H = dt.H + 1]
    ELSE IF dt.d < DaysInMonth(dt.Y, dt.m)
         THEN [dt EXCEPT !.S = 0, !.M = 0, !.H = 0, !.d = dt.d + 1]
    ELSE IF dt.m < 12
         THEN [dt EXCEPT !.S = 0, !.M = 0, !.H = 0, !.d = 1, !.m = dt.m + 1]
    ELSE [Y |-> dt.Y + 1, m |-> 1, d |-> 1, H |-> 0, M |-> 0, S |-> 0]

RECURSIVE AddSeconds(_, _)
AddSeconds(dt, n) == IF n = 0 THEN dt ELSE AddSeconds(NextSecond(dt), n - 1)

\* datetime.now() when the wall clock shows tick t: the fraction of the
\* second is not part of the format of line 164
DateTimeAt(t) == AddSeconds(boot, t \div TicksPerSecond)

DigitChars == <<"0", "1", "2", "3", "4", "5", "6", "7", "8", "9">>

RECURSIVE Decimal(_)
\* the decimal digits of n >= 0, without padding
Decimal(n) ==
    IF n < 10 THEN <<DigitChars[n + 1]>>
    ELSE Decimal(n \div 10) \o <<DigitChars[(n % 10) + 1]>>

\* %m, %d, %H, %M, %S: two digits, zero-padded
TwoDigits(n) == IF n < 10 THEN <<"0">> \o Decimal(n) ELSE Decimal(n)

\* the format without its seconds: "%Y%m%d_%H%M"
StrftimeNoSeconds(dt) ==
    Decimal(dt.Y) \o TwoDigits(dt.m) \o TwoDigits(dt.d) \o <<"_">>
    \o TwoDigits(dt.H) \o TwoDigits(dt.M)

\* the fields written without zero padding
StrftimeUnpadded(dt) ==
    Decimal(dt.Y) \o Decimal(dt.m) \o Decimal(dt.d) \o <<"_">>
    \o Decimal(dt.H) \o Decimal(dt.M) \o Decimal(dt.S)

\* line 164: strftime("%Y%m%d_%H%M%S"); %Y writes the year's digits
Strftime(dt) ==
    Decimal(dt.Y) \o TwoDigits(dt.m) \o TwoDigits(dt.d) \o <<"_">>
    \o TwoDigits(dt.H) \o TwoDigits(dt.M) \o TwoDigits(dt.S)

\* line 168: f"video_{timestamp}.avi"
FileName(timestamp) ==
    <<"v", "i", "d", "e", "o", "_">> \o timestamp \o <<".", "a", "v", "i">>

\* the characters of the configured paths
PathChars(p) ==
    IF p = "/mnt/usb1" THEN <<"/", "m", "n", "t", "/", "u", "s", "b", "1">>
    ELSE <<"/", "m", "n", "t", "/", "u", "s", "b", "2">>

\* line 173: os.path.join of a directory that does not end in "/" and a
\* relative file name
PathJoin(dir, filename) == dir \o <<"/">> \o filename

\* lines 164-173, for a call of record_video(mount) when the clock shows t
FilePath(mount, t) ==
    PathJoin(PathChars(mount), FileName(Strftime(DateTimeAt(t))))

\* the call is noted with the second it started in and its output path
Stamp ==
    attempts' = Append(attempts,
                       [dest |-> usb_path,
                        start |-> now \div TicksPerSecond,
                        path |-> FilePath(usb_path, now)])

\* time.sleep(seconds) returns after that long
SleepTicks(seconds) == seconds * TicksPerSecond

\* the wall clock does not go back: at least lo ticks pass
Passes(lo) ==
    \E d \in lo..(lo + MaxJitter) :
        /\ now + d <= MaxClock
        /\ now' = now + d

\* the daemon starts just before a minute, an hour, a day, a month or a
\* year ends
BootInstants ==
    {[Y |-> 2025, m |-> 10, d |-> 3, H |-> 9, M |-> 59, S |-> 58],
     [Y |-> 2025, m |-> 12, d |-> 31, H |-> 23, M |-> 59, S |-> 58]}

\* the mounts are absent or present with 50 Go while the clock is followed
ClockAnswers ==
    {a \in Answers :
        ~a.exists \/ (a.stat.status = "ok"
                      /\ a.stat.f_bavail = 50 * BlocksPerGo)}

InitClock ==
    /\ USB_PATHS = ShippedPaths
    /\ VIDEO_DURATION = ClockDuration
    /\ boot \in BootInstants
    /\ InitState

ClockMainStart ==
    /\ MainStart
    /\ Passes(0)
    /\ UNCHANGED <<boot, attempts>>

ClockSelect ==
    /\ SelectUsbPath
    /\ \A p \in Range(USB_PATHS) : seen'[p] \in ClockAnswers
    /\ Passes(0)
    /\ UNCHANGED <<boot, attempts>>

ClockRetrySleep ==
    /\ RetrySleep
    /\ Passes(SleepTicks(RetryPause))
    /\ UNCHANGED <<boot, attempts>>

ClockRecordLaunch ==
    /\ RecordLaunch
    /\ Stamp
    /\ Passes(0)
    /\ UNCHANGED boot

ClockRecordLaunchError ==
    /\ RecordLaunchError
    /\ Stamp
    /\ Passes(0)
    /\ UNCHANGED boot

\* an encoder that exits with status 0 has recorded for VIDEO_DURATION
\* seconds; one that fails may do so at once
ClockEncoderExit ==
    /\ EncoderExit
    /\ exit_status' \in {0, 1}
    /\ IF exit_status' = 0
       THEN Passes(SleepTicks(VIDEO_DURATION))
       ELSE Passes(0)
    /\ UNCHANGED <<boot, attempts>>

ClockPause ==
    /\ Pause
    /\ Passes(SleepTicks(INTERVAL))
    /\ UNCHANGED <<boot, attempts>>

NextClock ==
    \/ ClockMainStart
    \/ ClockSelect
    \/ ClockRetrySleep
    \/ ClockRecordLaunch
    \/ ClockRecordLaunchError
    \/ ClockEncoderExit
    \/ ClockPause

SpecClock == InitClock /\ [][NextClock]_vars

-----------------------------------------------------------------------------
(* What a select_usb_path() call observed, read from the environment's     *)
(* answers themselves                                                      *)

\* path p was present and mounted when the call inspected it
ObsPresent(o, p) == o[p].inspected /\ o[p].exists /\ o[p].ismount

\* the free space statvfs reported for p, in KiB; 0 when it reported none
ObsFree(o, p) ==
    IF o[p].stat.status = "ok"
    THEN o[p].stat.f_bavail * o[p].stat.f_frsize
    ELSE 0

Threshold == MIN_FREE_SPACE_GB * KiBPerGo

\* a step that is one call of select_usb_path
SelectCall == pc = "select" /\ pc' # "select"

-----------------------------------------------------------------------------
(* C1.  Stickiness: when the previous successful call returned mount M and *)
(* this call finds M present and mounted with a statvfs answer of at       *)
(* least MIN_FREE_SPACE_GB (exactly that much included), this call returns *)
(* M, whatever the free space of the other mounts.                         *)
C1_Stickiness ==
    [][(/\ SelectCall
        /\ last_returned # None
        /\ ObsPresent(seen', last_returned)
        /\ seen'[last_returned].stat.status = "ok"
        /\ ObsFree(seen', last_returned) >= Threshold)
       => usb_path' = last_returned]_vars

\* a second successful call has returned the mount of the first, which has
\* exactly the threshold left while another present mount has more
C1_Witness ==
    /\ pc = "record"
    /\ prev_returned = usb_path
    /\ ObsFree(seen, usb_path) = Threshold
    /\ \E q \in Range(USB_PATHS) :
         ObsPresent(seen, q) /\ ObsFree(seen, q) > ObsFree(seen, usb_path)

-----------------------------------------------------------------------------
(* C2.  Switch on exhaustion: the decision rests on the free space         *)
(* reported in this call.  When no mount was returned before, or the       *)
(* mount returned before is present with less than the threshold now, the  *)
(* call returns a present mount that no present mount exceeds in free      *)
(* space and records it in LAST_USED_USB.  With 50 Go and 10 Go and no     *)
(* earlier selection the 50 Go mount is returned; once it reports 1 Go     *)
(* the call returns the 10 Go mount.                                       *)
C2_SwitchOnExhaustion ==
    [][(/\ SelectCall
        /\ \E p \in Range(USB_PATHS) : ObsPresent(seen', p)
        /\ \/ last_returned = None
           \/ /\ ObsPresent(seen', last_returned)
              /\ ObsFree(seen', last_returned) < Threshold)
       => /\ usb_path' # None
          /\ ObsPresent(seen', usb_path')
          /\ \A q \in Range(USB_PATHS) :
               ObsPresent(seen', q)
               => ObsFree(seen', q) <= ObsFree(seen', usb_path')
          /\ LAST_USED_USB' = usb_path']_vars

\* the mount returned before now reports 1 Go, the other 10 Go, and the call
\* has switched to the other and recorded it
C2_Witness ==
    /\ pc = "record"
    /\ prev_returned = "/mnt/usb1"
    /\ ObsPresent(seen, "/mnt/usb1")
    /\ seen["/mnt/usb1"].stat.status = "ok"
    /\ ObsFree(seen, "/mnt/usb1") = KiBPerGo
    /\ ObsPresent(seen, "/mnt/usb2")
    /\ ObsFree(seen, "/mnt/usb2") = 10 * KiBPerGo
    /\ usb_path = "/mnt/usb2"
    /\ LAST_USED_USB = "/mnt/usb2"

-----------------------------------------------------------------------------
(* C3 as stated.  Tie-break: whenever two present mounts report equal free *)
(* space, the call returns the one listed first in USB_PATHS, whatever the *)
(* mount returned by earlier calls.                                        *)
C3_TieBreakAlways ==
    [][SelectCall
       => \A i, j \in DOMAIN USB_PATHS :
            (/\ i < j
             /\ ObsPresent(seen', USB_PATHS[i])
             /\ ObsPresent(seen', USB_PATHS[j])
             /\ ObsFree(seen', USB_PATHS[i]) = ObsFree(seen', USB_PATHS[j]))
            => usb_path' = USB_PATHS[i]]_vars

(* C3 amended.  Whenever two present mounts report equal free space, the   *)
(* call returns the one listed first in USB_PATHS, unless the one listed   *)
(* later is the mount returned by the previous successful call and the     *)
(* free space is at least MIN_FREE_SPACE_GB: then it returns that mount.   *)
C3_TieBreakUnlessSticky ==
    [][SelectCall
       => \A i, j \in DOMAIN USB_PATHS :
            (/\ i < j
             /\ ObsPresent(seen', USB_PATHS[i])
             /\ ObsPresent(seen', USB_PATHS[j])
             /\ ObsFree(seen', USB_PATHS[i]) = ObsFree(seen', USB_PATHS[j]))
            => IF /\ last_returned = USB_PATHS[j]
                  /\ ObsFree(seen', USB_PATHS[j]) >= Threshold
               THEN usb_path' = USB_PATHS[j]
               ELSE usb_path' = USB_PATHS[i]]_vars

\* the mount listed second was returned before; both now report the same
\* free space, below the threshold, and the call has returned the first
C3_Witness ==
    /\ pc = "record"
    /\ prev_returned = "/mnt/usb2"
    /\ ObsPresent(seen, "/mnt/usb1")
    /\ ObsPresent(seen, "/mnt/usb2")
    /\ seen["/mnt/usb1"].stat.status = "ok"
    /\ seen["/mnt/usb2"].stat.status = "ok"
    /\ ObsFree(seen, "/mnt/usb1") = ObsFree(seen, "/mnt/usb2")
    /\ ObsFree(seen, "/mnt/usb1") = KiBPerGo
    /\ usb_path = "/mnt/usb1"

-----------------------------------------------------------------------------
(* C4.  A mount whose statvfs call failed in a selection call is left out  *)
(* of that call's candidates: the call never returns it, nor records it    *)
(* in LAST_USED_USB.                                                       *)
C4_StatFailureExcluded ==
    usb_path # None
    => /\ seen[usb_path].stat.status # "error"
       /\ seen[LAST_USED_USB].stat.status # "error"

-----------------------------------------------------------------------------
(* C5.  Launch failure is recoverable: when the encoder cannot be started, *)
(* record_video returns false and main goes on to the pause before the     *)
(* next selection.                                                         *)
C5_LaunchFailureRecoverable ==
    [][(pc = "record" /\ ~encoder'.running)
       => (returned' = "false" /\ pc' = "pause")]_vars

-----------------------------------------------------------------------------
(* C6.  record_video returns true exactly when the encoder exits with      *)
(* status 0 and false for every other status; either way main goes on to   *)
(* the pause of INTERVAL seconds and from it to the next selection.        *)
C6_ExitStatusDecides ==
    [][/\ pc = "encoding"
          => /\ returned' = "true" <=> exit_status' = 0
             /\ returned' = "false" <=> exit_status' # 0
             /\ pc' = "pause"
       /\ pc = "pause" => (pc' = "select" /\ slept' = INTERVAL)]_vars

\* main is back at the selection after a capture whose encoder exited with
\* status 1
C6_Witness ==
    /\ pc = "select"
    /\ slept = INTERVAL
    /\ exit_status = 1
    /\ returned = "false"

-----------------------------------------------------------------------------
(* C7.  Invalid configuration is fatal at startup: with an empty list of   *)
(* candidate mounts or a segment duration that is not positive, main never *)
(* enters its loop.                                                        *)
C7_InvalidConfigRefused ==
    (USB_PATHS = <<>> \/ VIDEO_DURATION <= 0) => pc = "start"

-----------------------------------------------------------------------------
(* C8.  No destination: a call returns None exactly when no configured     *)
(* mount was present and mounted when it was inspected, whatever the free  *)
(* space of the present ones, and the call returns to main.                *)
C8_NoneIffNothingPresent ==
    [][SelectCall
       => /\ usb_path' = None
             <=> \A p \in Range(USB_PATHS) : ~ObsPresent(seen', p)
          /\ pc' \in {"retry_sleep", "record"}]_vars

\* a call has returned None although a configured path exists: it is not a
\* mount point
C8_Witness ==
    /\ pc = "retry_sleep"
    /\ usb_path = None
    /\ \E p \in Range(USB_PATHS) : seen[p].exists

-----------------------------------------------------------------------------
(* C9.  A selection that returns None is followed by the pause of          *)
(* RetryPause seconds and then by another selection, the encoder staying   *)
(* as it was; the encoder is started only after a selection that returned  *)
(* a mount, and with that mount as its destination.                        *)
C9_RetryWithoutEncoder ==
    [][/\ (SelectCall /\ usb_path' = None) => pc' = "retry_sleep"
       /\ pc = "retry_sleep"
          => (pc' = "select" /\ slept' = RetryPause /\ encoder' = encoder)
       /\ pc = "record" => (usb_path # None /\ usb_path = last_returned)
       /\ encoder' # encoder
          => \/ /\ pc = "record"
                /\ encoder'.running
                /\ encoder'.dest = usb_path
             \/ /\ pc = "encoding"
                /\ ~encoder'.running]_vars

\* a second selection in a row has returned None, after the long pause, and
\* no encoder has run
C9_Witness ==
    /\ pc = "retry_sleep"
    /\ slept = RetryPause
    /\ usb_path = None
    /\ returned = "none"
    /\ ~encoder.running

-----------------------------------------------------------------------------
(* C10.  A call only ever returns a member of USB_PATHS that was present   *)
(* and mounted when the call inspected it.                                 *)
C10_ReturnsConfiguredPresent ==
    usb_path # None
    => /\ usb_path \in Range(USB_PATHS)
       /\ ObsPresent(seen, usb_path)

\* the mount returned before is no longer present; the other one, with
\* enough space, has been returned
C10_Witness ==
    /\ pc = "record"
    /\ prev_returned = "/mnt/usb1"
    /\ ~ObsPresent(seen, "/mnt/usb1")
    /\ usb_path = "/mnt/usb2"
    /\ ObsFree(seen, "/mnt/usb2") >= Threshold

-----------------------------------------------------------------------------
(* C11.  Threshold fallback: when every present mount reports less than    *)
(* the threshold, zero included, the call does not refuse: it returns a    *)
(* present mount that no present mount exceeds in free space.              *)
C11_ThresholdFallback ==
    [][(/\ SelectCall
        /\ \E p \in Range(USB_PATHS) : ObsPresent(seen', p)
        /\ \A p \in Range(USB_PATHS) :
             ObsPresent(seen', p) => ObsFree(seen', p) < Threshold)
       => /\ usb_path' # None
          /\ ObsPresent(seen', usb_path')
          /\ \A q \in Range(USB_PATHS) :
               ObsPresent(seen', q)
               => ObsFree(seen', q) <= ObsFree(seen', usb_path')]_vars

\* both mounts are present below the threshold, the first with zero bytes,
\* and the call has returned the second, which has 1 Go
C11_Witness ==
    /\ pc = "record"
    /\ ObsPresent(seen, "/mnt/usb1")
    /\ seen["/mnt/usb1"].stat.status = "ok"
    /\ ObsFree(seen, "/mnt/usb1") = 0
    /\ ObsPresent(seen, "/mnt/usb2")
    /\ ObsFree(seen, "/mnt/usb2") = KiBPerGo
    /\ usb_path = "/mnt/usb2"

-----------------------------------------------------------------------------
(* C15.  Sticky-state invariant: LAST_USED_USB is None, and then no call   *)
(* has returned a mount yet, or it is the mount returned by the most       *)
(* recent call that returned one.                                          *)
C15_StickyIsLastReturned == LAST_USED_USB = last_returned

\* a call has switched from the mount returned before to the other one, and
\* LAST_USED_USB names the new one
C15_Witness ==
    /\ pc = "record"
    /\ prev_returned # None
    /\ prev_returned # usb_path
    /\ LAST_USED_USB = usb_path

-----------------------------------------------------------------------------
(* C16.  Frame of the sticky state: LAST_USED_USB is None when main        *)
(* starts and changes only in a call of select_usb_path that returns a     *)
(* mount; a call that returns None, a capture and both pauses leave it as  *)
(* it is, so the next selection after a failed capture decides on the      *)
(* same LAST_USED_USB as the one before it.                                *)
C16_StickyFrame ==
    /\ [](pc = "start" => LAST_USED_USB = None)
    /\ [][/\ LAST_USED_USB' # LAST_USED_USB
             => (SelectCall /\ usb_path' # None)
          /\ pc \in {"retry_sleep", "record", "encoding", "pause"}
             => LAST_USED_USB' = LAST_USED_USB]_vars

\* after a capture that failed, a call has found no mount and returned None,
\* and LAST_USED_USB still names the mount of that capture
C16_Witness ==
    /\ pc = "retry_sleep"
    /\ returned = "false"
    /\ LAST_USED_USB # None
    /\ LAST_USED_USB = encoder.dest

-----------------------------------------------------------------------------
(* C18.  No unnecessary switching: when two successive calls that return   *)
(* a mount return different mounts M then M', the second call found M      *)
(* absent or not mounted, or with less than the threshold.                 *)
C18_SwitchOnlyWhenNeeded ==
    [][(/\ SelectCall
        /\ last_returned # None
        /\ usb_path' # None
        /\ usb_path' # last_returned)
       => \/ ~ObsPresent(seen', last_returned)
          \/ ObsFree(seen', last_returned) < Threshold]_vars

\* the mount returned before is present one block short of the threshold
\* and the call has switched to the other
C18_Witness ==
    /\ pc = "record"
    /\ prev_returned = "/mnt/usb1"
    /\ usb_path = "/mnt/usb2"
    /\ ObsPresent(seen, "/mnt/usb1")
    /\ seen["/mnt/usb1"].stat.status = "ok"
    /\ ObsFree(seen, "/mnt/usb1") = Threshold - BlockKiB

-----------------------------------------------------------------------------
(* C19.  Safe choice when one exists: whenever some present mount reports  *)
(* at least the threshold, the mount the call returns reports at least     *)
(* the threshold, whatever LAST_USED_USB was.                              *)
C19_SafeChoice ==
    [][(/\ SelectCall
        /\ \E p \in Range(USB_PATHS) :
             ObsPresent(seen', p) /\ ObsFree(seen', p) >= Threshold)
       => /\ usb_path' # None
          /\ ObsPresent(seen', usb_path')
          /\ ObsFree(seen', usb_path') >= Threshold]_vars

\* the mount returned before is present with 1 Go, below the threshold; the
\* other has exactly the threshold, and the call has returned the other
C19_Witness ==
    /\ pc = "record"
    /\ prev_returned = "/mnt/usb2"
    /\ ObsPresent(seen, "/mnt/usb2")
    /\ ObsFree(seen, "/mnt/usb2") = KiBPerGo
    /\ ObsPresent(seen, "/mnt/usb1")
    /\ ObsFree(seen, "/mnt/usb1") = Threshold
    /\ usb_path = "/mnt/usb1"

-----------------------------------------------------------------------------
(* C12.  Captures are serialized: at most one encoder process runs at any  *)
(* time, an encoder is started only when none is running, and main is at   *)
(* a selection or in a pause only when none is running.                    *)
C12_CapturesSerialized ==
    /\ [](active <= 1)
    /\ [](pc \in {"select", "retry_sleep", "pause"} => active = 0)
    /\ [][active' > active => active = 0]_vars

\* a second capture is running: the encoder of the one before has exited
\* with a failure and main has paused and selected in between
C12_Witness ==
    /\ pc = "encoding"
    /\ active = 1
    /\ returned = "false"
    /\ slept = INTERVAL

-----------------------------------------------------------------------------
(* C13.  The daemon keeps attempting forever: main's loop never ends on    *)
(* its own, and when every encoder and every pause returns, a new          *)
(* selection is always eventually made; unless selections keep finding no  *)
(* mount, a new capture is always eventually attempted.                    *)
C13_KeepsAttempting ==
    /\ []<>(pc = "select")
    /\ []<>(pc = "retry_sleep") \/ []<>(pc = "record")

-----------------------------------------------------------------------------
(* Reading output paths as text *)

\* the characters of the output paths, in ASCII order
AsciiOrder ==
    <<".", "/", "0", "1", "2", "3", "4", "5", "6", "7", "8", "9", "_",
      "a", "b", "d", "e", "i", "m", "n", "o", "s", "t", "u", "v">>

Ord(c) == CHOOSE i \in DOMAIN AsciiOrder : AsciiOrder[i] = c

\* a sorts strictly before b, character by character
LexLess(a, b) ==
    \E k \in 1..Len(b) :
        /\ \A i \in 1..(k - 1) : i <= Len(a) /\ a[i] = b[i]
        /\ k > Len(a) \/ Ord(a[k]) < Ord(b[k])

IsDigit(c) == \E i \in DOMAIN DigitChars : DigitChars[i] = c

RECURSIVE DigitsValue(_)
\* the number a string of digits writes
DigitsValue(s) ==
    IF s = <<>> THEN 0
    ELSE 10 * DigitsValue(SubSeq(s, 1, Len(s) - 1))
         + (CHOOSE i \in DOMAIN DigitChars : DigitChars[i] = s[Len(s)]) - 1

\* the file name of an attempt: its path after the mount and the "/"
NameOf(a) == SubSeq(a.path, Len(PathChars(a.dest)) + 2, Len(a.path))

\* s[from..to] is the number n written in digits
Writes(s, from, to, n) ==
    /\ \A i \in from..to : IsDigit(s[i])
    /\ DigitsValue(SubSeq(s, from, to)) = n

-----------------------------------------------------------------------------
(* C14.  The output path of a record_video call is the mount, "/" and      *)
(* video_YYYYMMDD_HHMMSS.avi, the fields those of the wall clock when the  *)
(* call started, each of fixed width and zero-padded; so of any two calls  *)
(* the file name of one sorts before that of the other exactly when it     *)
(* started in an earlier second.                                           *)
C14_FileNameFormat ==
    /\ \A i \in DOMAIN attempts :
         LET a == attempts[i]
             dir == PathChars(a.dest)
             name == NameOf(a)
             dt == AddSeconds(boot, a.start)
         IN  /\ SubSeq(a.path, 1, Len(dir) + 1) = dir \o <<"/">>
             /\ Len(name) = 25
             /\ SubSeq(name, 1, 6) = <<"v", "i", "d", "e", "o", "_">>
             /\ Writes(name, 7, 10, dt.Y)
             /\ Writes(name, 11, 12, dt.m)
             /\ Writes(name, 13, 14, dt.d)
             /\ name[15] = "_"
             /\ Writes(name, 16, 17, dt.H)
             /\ Writes(name, 18, 19, dt.M)
             /\ Writes(name, 20, 21, dt.S)
             /\ SubSeq(name, 22, 25) = <<".", "a", "v", "i">>
    /\ \A i, j \in DOMAIN attempts :
         LexLess(NameOf(attempts[i]), NameOf(attempts[j]))
         <=> attempts[i].start < attempts[j].start

\* one capture has started at 09:59:59 and a later one at 10:00:00
C14_Witness ==
    \E i, j \in DOMAIN attempts :
        /\ AddSeconds(boot, attempts[i].start).H = 9
        /\ AddSeconds(boot, attempts[i].start).S = 59
        /\ AddSeconds(boot, attempts[j].start).H = 10
        /\ AddSeconds(boot, attempts[j].start).S = 0

-----------------------------------------------------------------------------
(* C17.  Output paths do not collide within a run: with a wall clock that  *)
(* does not go back and pauses that last at least their length, no two     *)
(* record_video calls of main's loop are given the same output path, also  *)
(* when an encoder fails at once.                                          *)
C17_NoPathCollision ==
    \A i, j \in DOMAIN attempts :
        i # j => attempts[i].path # attempts[j].path

\* the first encoder has failed, and the second capture on the same mount
\* has started in the second after the first
C17_Witness ==
    /\ pc = "encoding"
    /\ returned = "false"
    /\ Len(attempts) = 2
    /\ attempts[1].dest = attempts[2].dest
    /\ attempts[2].start = attempts[1].start + 1

=============================================================================
